---- MODULE Spec2Model ----
(***************************************************************************)
(* Model of the BFT primitives of plenum/common/util.py:                   *)
(*   getMaxFailures, getQuorum, getNoInstances     (fault tolerance)       *)
(*   distributedConnectionMap                      (connectivity plan)     *)
(*   checkIfMoreThanFSameItems                     (agreement detection)   *)
(* The functions are pure apart from the in-place sort of the caller's     *)
(* list, so each component has its own specification: Init draws the       *)
(* arguments from bounded sets and the actions apply the functions.        *)
(***************************************************************************)
EXTENDS Integers, Sequences, FiniteSets, TLC

VARIABLES
    called,     \* name of the function invoked last, "" before any call
    raised,     \* exception raised by the last call, "" when it returned
    nodeCount,  \* argument nodeCount of the fault-tolerance functions
    f,          \* argument f of getQuorum
    ret,        \* value returned by the last fault-tolerance call
    names,      \* the caller's list object passed to distributedConnectionMap
    connmap,    \* plan returned by distributedConnectionMap
    items,      \* argument items of checkIfMoreThanFSameItems
    maxF,       \* argument maxF of checkIfMoreThanFSameItems
    found       \* value returned by checkIfMoreThanFSameItems

vars == <<called, raised, nodeCount, f, ret, names, connmap, items, maxF, found>>

\* ---------------------------------------------------------------- bounds
MaxNodes == 13
MaxFaultArg == 4
NumNames == 5
MaxNames == 5
MaxItems == 4
MaxFaults == 2

\* ------------------------------------------------------- Python values
\* An optional int (an int argument whose default is None).
None == [isNone |-> TRUE, val |-> 0]
PyInt(k) == [isNone |-> FALSE, val |-> k]

\* A Python value that json.dumps accepts.
PyStr(s) == [type |-> "str", val |-> s]
PyList(s) == [type |-> "list", val |-> s]
PyTuple(s) == [type |-> "tuple", val |-> s]
PyFalse == [type |-> "bool", val |-> "false"]
PyNone == [type |-> "NoneType", val |-> "null"]

Range(s) == {s[i] : i \in DOMAIN s}

SeqsUpTo(S, n) == UNION {[1..k -> S] : k \in 0..n}

\* ------------------------------------------------------ fault tolerance
getMaxFailuresOffByOne(n) == IF n >= 4 THEN n \div 3 ELSE 0

getMaxFailures(n) == IF n >= 4 THEN (n - 1) \div 3 ELSE 0

getQuorumPrefersF(n, ff) ==
    LET f1 == IF ff = None /\ n # None THEN PyInt(getMaxFailures(n.val)) ELSE ff
    IN  IF f1 # None THEN PyInt(2 * f1.val + 1) ELSE None

getQuorum(n, ff) ==
    LET f1 == IF n # None THEN PyInt(getMaxFailures(n.val)) ELSE ff
    IN  IF f1 # None THEN PyInt(2 * f1.val + 1) ELSE None

getNoInstances(n) == getMaxFailures(n) + 1

GetMaxFailures ==
    /\ nodeCount # None
    /\ called' = "getMaxFailures"
    /\ ret' = PyInt(getMaxFailures(nodeCount.val))
    /\ UNCHANGED <<raised, nodeCount, f, names, connmap, items, maxF, found>>

GetQuorum ==
    /\ called' = "getQuorum"
    /\ ret' = getQuorum(nodeCount, f)
    /\ UNCHANGED <<raised, nodeCount, f, names, connmap, items, maxF, found>>

GetNoInstances ==
    /\ nodeCount # None
    /\ called' = "getNoInstances"
    /\ ret' = PyInt(getNoInstances(nodeCount.val))
    /\ UNCHANGED <<raised, nodeCount, f, names, connmap, items, maxF, found>>

OptNodeCounts == {None} \cup {PyInt(k) : k \in 0..MaxNodes}
OptFaults == {None} \cup {PyInt(k) : k \in 0..MaxFaultArg}

EmptyMap == [n \in {} |-> <<>>]

InitFaultTolerance ==
    /\ called = ""
    /\ raised = ""
    /\ nodeCount \in OptNodeCounts
    /\ f \in OptFaults
    /\ ret = None
    /\ names = <<>>
    /\ connmap = EmptyMap
    /\ items = <<>>
    /\ maxF = 0
    /\ found = PyNone

NextFaultTolerance == GetMaxFailures \/ GetQuorum \/ GetNoInstances

SpecFaultTolerance == InitFaultTolerance /\ [][NextFaultTolerance]_vars

\* ---------------------------------------------------- connectivity plan
\* Names are 1..NumNames; the order of the integers stands for the
\* lexicographic order of the name strings that list.sort() uses.
Name == 1..NumNames

sorted(s) == SortSeq(s, LAMBDA a, b : a < b)

\* itertools.combinations(s, 2): the pairs of positions i < j, in
\* lexicographic order of the positions.
RECURSIVE CombosFrom(_, _, _)
CombosFrom(s, i, j) ==
    IF i >= Len(s) THEN <<>>
    ELSE IF j > Len(s) THEN CombosFrom(s, i + 1, i + 2)
    ELSE <<<<s[i], s[j]>>>> \o CombosFrom(s, i, j + 1)

combinations(s) == CombosFrom(s, 1, 2)

\* math.ceil(a / b) for a >= 0, b > 0
ceil(a, b) == (a + b - 1) \div b

AssignDropsOverflow(cm, a, b, maxPer) ==
    IF Len(cm[a]) < maxPer THEN [cm EXCEPT ![a] = Append(@, b)] ELSE cm

AssignNoCapacity(cm, a, b, maxPer) == [cm EXCEPT ![a] = Append(@, b)]

\* The body of the loop over combos.
Assign(cm, a, b, maxPer) ==
    IF Len(cm[a]) < maxPer
    THEN [cm EXCEPT ![a] = Append(@, b)]
    ELSE [cm EXCEPT ![b] = Append(@, a)]

RECURSIVE Connect(_, _, _, _)
Connect(cm, combos, k, maxPer) ==
    IF k > Len(combos) THEN cm
    ELSE Connect(Assign(cm, combos[k][1], combos[k][2], maxPer), combos, k + 1, maxPer)

\* The plan returned for an already sorted, non-empty list.
PlanOf(s) ==
    LET combos == combinations(s)
        maxPer == ceil(Len(combos), Len(s))
    IN  Connect([n \in Range(s) |-> <<>>], combos, 1, maxPer)

\* names.sort() sorts the caller's list in place; the division by
\* len(names) raises ZeroDivisionError on an empty list.
DistributedConnectionMap ==
    /\ called' = "distributedConnectionMap"
    /\ names' = sorted(names)
    /\ IF Len(names) = 0
       THEN raised' = "ZeroDivisionError" /\ UNCHANGED connmap
       ELSE raised' = "" /\ connmap' = PlanOf(sorted(names))
    /\ UNCHANGED <<nodeCount, f, ret, items, maxF, found>>

InitConnectivity ==
    /\ called = ""
    /\ raised = ""
    /\ nodeCount = None
    /\ f = None
    /\ ret = None
    /\ names \in SeqsUpTo(Name, MaxNames)
    /\ connmap = EmptyMap
    /\ items = <<>>
    /\ maxF = 0
    /\ found = PyNone

NextConnectivity == DistributedConnectionMap

SpecConnectivity == InitConnectivity /\ [][NextConnectivity]_vars

\* -------------------------------------------------- agreement detection
Value == {PyStr("x"), PyStr("y"), PyFalse, PyList("x"), PyTuple("x")}

\* The values json.loads can produce (a JSON array loads as a list).
JsonValue == {v \in Value \cup {PyNone} : v.type # "tuple"}

\* json.dumps(item, sort_keys=True): lists and tuples both serialise as a
\* JSON array.
json_dumps(item) ==
    CASE item.type = "str" -> "\"" \o item.val \o "\""
      [] item.type \in {"list", "tuple"} -> "[\"" \o item.val \o "\"]"
      [] OTHER -> item.val

json_loads(text) == CHOOSE v \in JsonValue : json_dumps(v) = text

\* counts[jItem] = counts.get(jItem, 0) + 1 over the jsonified items
Counts(jsonifiedItems) ==
    [k \in Range(jsonifiedItems) |->
        Cardinality({i \in DOMAIN jsonifiedItems : jsonifiedItems[i] = k})]

\* The iteration orders a dict with these keys can have: the order is an
\* implementation detail of the interpreter (hash order, randomised per
\* process, before CPython 3.6; insertion order from 3.6 on).
DictOrders(keys) ==
    {o \in [1..Cardinality(keys) -> keys] : \A i, j \in DOMAIN o : i # j => o[i] # o[j]}

\* max(counts, key=counts.get): the first key, in iteration order, whose
\* count is maximal.
max(order, counts) ==
    order[CHOOSE i \in DOMAIN order :
            /\ \A j \in DOMAIN order : counts[order[j]] <= counts[order[i]]
            /\ \A j \in DOMAIN order : j < i => counts[order[j]] < counts[order[i]]]

jsonified(its) == [i \in DOMAIN its |-> json_dumps(its[i])]

checkIfAtLeastFSameItems(its, mF, order) ==
    LET counts == Counts(jsonified(its))
    IN  IF counts[max(order, counts)] >= mF
        THEN json_loads(max(order, counts))
        ELSE PyFalse

\* The value returned for a non-empty items under one iteration order of
\* the counts dict.
checkIfMoreThanFSameItems(its, mF, order) ==
    LET counts == Counts(jsonified(its))
    IN  IF counts[max(order, counts)] > mF
        THEN json_loads(max(order, counts))
        ELSE PyFalse

\* max() of an empty dict raises ValueError.
CheckIfMoreThanFSameItems ==
    /\ called' = "checkIfMoreThanFSameItems"
    /\ IF items = <<>>
       THEN raised' = "ValueError" /\ UNCHANGED found
       ELSE /\ raised' = ""
            /\ \E order \in DictOrders(Range(jsonified(items))) :
                  found' = checkIfMoreThanFSameItems(items, maxF, order)
    /\ UNCHANGED <<nodeCount, f, ret, names, connmap, items, maxF>>

InitAgreement ==
    /\ called = ""
    /\ raised = ""
    /\ nodeCount = None
    /\ f = None
    /\ ret = None
    /\ names = <<>>
    /\ connmap = EmptyMap
    /\ items \in SeqsUpTo(Value, MaxItems)
    /\ maxF \in 0..MaxFaults
    /\ found = PyNone

NextAgreement == CheckIfMoreThanFSameItems

SpecAgreement == InitAgreement /\ [][NextAgreement]_vars

\* ================================================================ claims
IsDistinct(s) == \A i, j \in DOMAIN s : i # j => s[i] # s[j]

RECURSIVE TotalEntries(_, _)
TotalEntries(cm, keys) ==
    IF keys = {} THEN 0
    ELSE LET k == CHOOSE x \in keys : TRUE
         IN  Len(cm[k]) + TotalEntries(cm, keys \ {k})

PlanReturned == called = "distributedConnectionMap" /\ raised = ""

\* C1: for distinct names the returned plan covers the complete graph
\* exactly once: every unordered pair is in exactly one of the two lists,
\* no list holds its own key or a repeated name, and the lists hold
\* n*(n-1)/2 entries in total.
C1_ExactCover ==
    (PlanReturned /\ IsDistinct(names)) =>
        /\ DOMAIN connmap = Range(names)
        /\ \A a, b \in Range(names) :
              a # b => ((b \in Range(connmap[a])) # (a \in Range(connmap[b])))
        /\ \A a \in Range(names) :
              /\ a \notin Range(connmap[a])
              /\ IsDistinct(connmap[a])
        /\ 2 * TotalEntries(connmap, Range(names)) = Len(names) * (Len(names) - 1)

\* C1 witness: a plan for four or more distinct names in which an edge
\* was deferred onto its second element.
C1_Witness ==
    /\ PlanReturned
    /\ IsDistinct(names)
    /\ Len(names) >= 4
    /\ \E a, b \in Range(names) : a < b /\ a \in Range(connmap[b])

Occurrences(text, its) == Cardinality({i \in DOMAIN its : json_dumps(its[i]) = text})

MaxFrequency(its) ==
    CHOOSE c \in 0..Len(its) :
        /\ \A i \in DOMAIN its : Occurrences(json_dumps(its[i]), its) <= c
        /\ \E i \in DOMAIN its : Occurrences(json_dumps(its[i]), its) = c

MajorityReturned == called = "checkIfMoreThanFSameItems" /\ raised = ""

\* C2: for non-empty items, when the highest frequency of a canonical form
\* exceeds maxF the result is a value whose canonical form occurs more
\* than maxF times in items, and otherwise the result is the "no
\* agreement" result False; so a result other than False is returned only
\* when the highest frequency exceeds maxF.
C2_MajorityThreshold ==
    (MajorityReturned /\ items # <<>>) =>
        /\ MaxFrequency(items) > maxF =>
              /\ found \in JsonValue
              /\ Occurrences(json_dumps(found), items) > maxF
        /\ MaxFrequency(items) <= maxF => found = PyFalse
        /\ found # PyFalse => MaxFrequency(items) > maxF

\* C2 witness: a value is returned whose frequency is exactly maxF + 1
\* while another value was reported too.
C2_Witness ==
    /\ MajorityReturned
    /\ maxF >= 1
    /\ found # PyFalse
    /\ Occurrences(json_dumps(found), items) = maxF + 1
    /\ \E i \in DOMAIN items : json_dumps(items[i]) # json_dumps(found)

\* k is floor((n-1)/3) for n >= 4, and 0 below 4.
IsMaxFailures(n, k) ==
    IF n >= 4 THEN 3 * k <= n - 1 /\ n - 1 < 3 * k + 3 ELSE k = 0

C4_Quorum ==
    (called = "getQuorum" /\ (nodeCount # None \/ f # None)) =>
        /\ ret # None
        /\ IF nodeCount # None
           THEN \E k \in 0..nodeCount.val :
                    IsMaxFailures(nodeCount.val, k) /\ ret.val = 2 * k + 1
           ELSE ret.val = 2 * f.val + 1

\* C4 witness: getQuorum(nodeCount=7, f=0) returned 5, ignoring f.
C4_Witness ==
    called = "getQuorum" /\ nodeCount = PyInt(7) /\ f = PyInt(0) /\ ret = PyInt(5)

\* C5: getQuorum with neither nodeCount nor f raises an error and returns
\* no value.
C5_QuorumNeedsArgument ==
    (called = "getQuorum" /\ nodeCount = None /\ f = None) => raised # ""

HasDuplicate(s) == ~IsDistinct(s)

\* C6: distributedConnectionMap raises an error, and returns no plan, on
\* an empty list and on a list with a duplicate name.
C6_RejectsEmptyOrDuplicate ==
    (called = "distributedConnectionMap" /\ (names = <<>> \/ HasDuplicate(names))) =>
        raised # ""

\* C7: checkIfMoreThanFSameItems raises no error for any items, the empty
\* sequence included.
C7_NeverRaises == called = "checkIfMoreThanFSameItems" => raised = ""

PermutationsOf(s) ==
    {[i \in DOMAIN s |-> s[p[i]]] :
        p \in {q \in [DOMAIN s -> DOMAIN s] : \A i, j \in DOMAIN s : i # j => q[i] # q[j]}}

Tied(its) ==
    \E i, j \in DOMAIN its :
        /\ json_dumps(its[i]) # json_dumps(its[j])
        /\ Occurrences(json_dumps(its[i]), its) = MaxFrequency(its)
        /\ Occurrences(json_dumps(its[j]), its) = MaxFrequency(its)

\* C8: when two or more canonical forms share the highest frequency and it
\* exceeds maxF, every permutation of items yields the same returned
\* value as the one returned for items.
C8_TieIsDeterministic ==
    (MajorityReturned /\ items # <<>> /\ Tied(items) /\ MaxFrequency(items) > maxF) =>
        \A p \in PermutationsOf(items) :
            \A order \in DictOrders(Range(jsonified(p))) :
                checkIfMoreThanFSameItems(p, maxF, order) = found

\* C9: a call of distributedConnectionMap leaves the caller's list with
\* the same elements in the same order.
C9_ArgumentUnchanged == [][DistributedConnectionMap => names' = names]_vars

\* The smallest m with m * n >= n*(n-1)/2, that is ceil((n*(n-1)/2) / n).
LoadBound(n) ==
    CHOOSE m \in 0..n :
        /\ 2 * m * n >= n * (n - 1)
        /\ 2 * (m - 1) * n < n * (n - 1)

\* C10: for n >= 1 distinct names every list of the returned plan has at
\* most ceil((n*(n-1)/2) / n) entries, taken and deferred edges together.
C10_LoadBound ==
    (PlanReturned /\ IsDistinct(names)) =>
        \A a \in DOMAIN connmap : Len(connmap[a]) <= LoadBound(Len(names))

\* C10 witness: a list filled to the bound that holds both an edge it
\* took itself and an edge deferred onto it.
C10_Witness ==
    /\ PlanReturned
    /\ IsDistinct(names)
    /\ \E b \in DOMAIN connmap :
          /\ Len(connmap[b]) = LoadBound(Len(names))
          /\ \E a \in Range(connmap[b]) : a < b
          /\ \E c \in Range(connmap[b]) : c > b

====
